---------------------------- MODULE Spec2Model ----------------------------
(***************************************************************************)
(* A model of scripts/pyarrow_inspect.py: the command line entry point,    *)
(* inspect_parquet, generate_junit_template, python_to_java_type and       *)
(* format_value.                                                           *)
(*                                                                         *)
(* Text is a sequence of one-character strings, so that substring search,  *)
(* split, replace and capitalize are computed character by character.      *)
(* Python integers are unbounded; an integer v is held as two limbs,       *)
(* v = hi * 2^16 + lo with 0 <= lo < 2^16 (hi = v // 2^16, lo = v % 2^16), *)
(* so that values on both sides of the int32 boundaries are represented.   *)
(***************************************************************************)
EXTENDS Integers, Sequences, FiniteSets, TLC

VARIABLES
    pc,         \* position of the running code
    argv,       \* sys.argv (argv[1] is the program name)
    world,      \* the file system and the libraries as the run finds them
    file_path,  \* local of __main__
    max_rows,   \* local of __main__
    table,      \* local of inspect_parquet (pq.read_table's result)
    i,          \* loop index of the running loop (0-based, as enumerate's)
    out,        \* standard output: the sequence of printed sections
    err,        \* standard error
    summary,    \* the per-column summaries printed so far
    preview,    \* the parts printed by the data preview
    template,   \* the text returned by generate_junit_template and printed
    exc,        \* the exception in flight, "" when none
    status,     \* the exit status, -1 while the process runs
    arg,        \* argument of the pure function under call
    ret         \* its result

vars == <<pc, argv, world, file_path, max_rows, table, i, out, err, summary,
          preview, template, exc, status, arg, ret>>

(***************************************************************************)
(* Bounds of the model.                                                    *)
(***************************************************************************)
MaxTypeParts == 2
MaxPathParts == 4
MaxShortLen == 3
MaxLongLen == 12
MaxRows == 7
MaxPreview == 6
MaxTemplateRows == 1
MaxTemplateCols == 2

(***************************************************************************)
(* Text.                                                                   *)
(***************************************************************************)
UpperAlpha == <<"A","B","C","D","E","F","G","H","I","J","K","L","M",
                "N","O","P","Q","R","S","T","U","V","W","X","Y","Z">>
LowerAlpha == <<"a","b","c","d","e","f","g","h","i","j","k","l","m",
                "n","o","p","q","r","s","t","u","v","w","x","y","z">>

LowerChar(c) ==
    IF \E k \in 1..Len(UpperAlpha) : UpperAlpha[k] = c
    THEN LowerAlpha[CHOOSE k \in 1..Len(UpperAlpha) : UpperAlpha[k] = c]
    ELSE c

UpperChar(c) ==
    IF \E k \in 1..Len(LowerAlpha) : LowerAlpha[k] = c
    THEN UpperAlpha[CHOOSE k \in 1..Len(LowerAlpha) : LowerAlpha[k] = c]
    ELSE c

\* str.lower()
Lower(s) == [k \in 1..Len(s) |-> LowerChar(s[k])]

\* str.capitalize(): the first character upper-cased, the rest lower-cased
Capitalize(s) ==
    [k \in 1..Len(s) |-> IF k = 1 THEN UpperChar(s[k]) ELSE LowerChar(s[k])]

\* s[from:] (from is 0-based)
Drop(s, from) == SubSeq(s, from + 1, Len(s))

\* s.startswith(p)
StartsWith(s, p) == Len(p) <= Len(s) /\ SubSeq(s, 1, Len(p)) = p

\* key in s
Contains(s, key) ==
    \E k \in 0..(Len(s) - Len(key)) : SubSeq(s, k + 1, k + Len(key)) = key

\* s.split(sep) for a one-character sep: the list of the pieces
RECURSIVE SplitFrom(_, _, _)
SplitFrom(s, sep, cur) ==
    IF s = <<>> THEN <<cur>>
    ELSE IF s[1] = sep THEN <<cur>> \o SplitFrom(Tail(s), sep, <<>>)
    ELSE SplitFrom(Tail(s), sep, Append(cur, s[1]))

Split(s, sep) == SplitFrom(s, sep, <<>>)

\* s.replace(old, ""): every non-overlapping occurrence, scanning from the left
RECURSIVE Remove(_, _)
Remove(s, old) ==
    IF s = <<>> THEN <<>>
    ELSE IF StartsWith(s, old) THEN Remove(Drop(s, Len(old)), old)
    ELSE <<s[1]>> \o Remove(Tail(s), old)

\* ''.join(words)
RECURSIVE Join(_)
Join(words) ==
    IF words = <<>> THEN <<>> ELSE Head(words) \o Join(Tail(words))

\* The concatenation of a sequence of fragments (how the inputs are built).
RECURSIVE Concat(_)
Concat(parts) ==
    IF parts = <<>> THEN <<>> ELSE Head(parts) \o Concat(Tail(parts))

SeqsUpTo(S, n) == UNION {[1..m -> S] : m \in 0..n}

(***************************************************************************)
(* python_to_java_type                                                     *)
(***************************************************************************)
\* type_map with the double entry moved to the front
type_map_double_first == <<
    [key |-> <<"d","o","u","b","l","e">>, value |-> "Double"],
    [key |-> <<"i","n","t","3","2">>,     value |-> "Integer"],
    [key |-> <<"i","n","t","6","4">>,     value |-> "Long"],
    [key |-> <<"f","l","o","a","t">>,     value |-> "Float"],
    [key |-> <<"s","t","r","i","n","g">>, value |-> "String"],
    [key |-> <<"b","i","n","a","r","y">>, value |-> "String"],
    [key |-> <<"b","o","o","l">>,         value |-> "Boolean"] >>

\* the dict of lines 159-167, in insertion order
type_map == <<
    [key |-> <<"i","n","t","3","2">>,     value |-> "Integer"],
    [key |-> <<"i","n","t","6","4">>,     value |-> "Long"],
    [key |-> <<"f","l","o","a","t">>,     value |-> "Float"],
    [key |-> <<"d","o","u","b","l","e">>, value |-> "Double"],
    [key |-> <<"s","t","r","i","n","g">>, value |-> "String"],
    [key |-> <<"b","i","n","a","r","y">>, value |-> "String"],
    [key |-> <<"b","o","o","l">>,         value |-> "Boolean"] >>

\* the for loop over type_map.items(), from entry k on
RECURSIVE TypeLookup(_, _)
TypeLookup(pyarrow_type, k) ==
    IF k > Len(type_map) THEN "Object"
    ELSE IF Contains(Lower(pyarrow_type), type_map[k].key) THEN type_map[k].value
    ELSE TypeLookup(pyarrow_type, k + 1)

python_to_java_type(pyarrow_type) == TypeLookup(pyarrow_type, 1)

(***************************************************************************)
(* Values of a column (col.to_pylist()).  t is the Python type of the      *)
(* value; an int or bool carries its limbs hi, lo; a str carries its text  *)
(* in s; a float carries its repr in s; a value of another type (bytes,    *)
(* datetime, list, ...) carries its string form in s.                      *)
(***************************************************************************)
Limb == 2 ^ 16

Value(t, hi, lo, s) == [t |-> t, hi |-> hi, lo |-> lo, s |-> s]

PyNone == Value("NoneType", 0, 0, "None")
PyInt(n) == Value("int", IF n < 0 THEN -1 ELSE 0, IF n < 0 THEN Limb + n ELSE n, "")
PyBigInt(hi, lo) == Value("int", hi, lo, "")
PyStr(s) == Value("str", 0, 0, s)
PyBool(b) == Value("bool", 0, IF b THEN 1 ELSE 0, "")
\* the float of integral value n, whose repr is r
PyFloat(n, r) == Value("float", IF n < 0 THEN -1 ELSE 0, IF n < 0 THEN Limb + n ELSE n, r)
PyOther(t, s) == Value(t, 0, 0, s)

\* the classes a value of type t is an instance of (bool is a subclass of int)
Mro(t) == IF t = "bool" THEN {"bool", "int"} ELSE {t}

\* isinstance(val, cls)
IsInstance(val, cls) == cls \in Mro(val.t)

\* a > b on integers
IntGt(a, b) == a.hi > b.hi \/ (a.hi = b.hi /\ a.lo > b.lo)

\* 2147483647 = 32767 * 2^16 + 65535
INT32_MAX == PyBigInt(32767, 65535)

\* str(val): the text of a str, the repr of a float, True/False, the decimal
\* digits of an int (kept as the integer, the rendering being injective)
ToStr(val) ==
    IF val.t = "bool" THEN [digits |-> FALSE, hi |-> 0, lo |-> 0,
                            s |-> IF val.lo # 0 THEN "True" ELSE "False"]
    ELSE IF val.t = "int" THEN [digits |-> TRUE, hi |-> val.hi, lo |-> val.lo, s |-> ""]
    ELSE [digits |-> FALSE, hi |-> 0, lo |-> 0, s |-> val.s]

(***************************************************************************)
(* format_value: the Java literal of a value.  form is the shape of the    *)
(* literal; a quoted literal is text between double quotes; an int literal *)
(* is the digits of hi, lo followed by suffix.                             *)
(***************************************************************************)
Literal(form, text, hi, lo, suffix) ==
    [form |-> form, text |-> text, hi |-> hi, lo |-> lo, suffix |-> suffix]

\* format_value with the int test ahead of the bool test
format_value_int_first(val) ==
    IF val.t = "NoneType" THEN Literal("null", "null", 0, 0, "")
    ELSE IF IsInstance(val, "str") THEN Literal("quoted", val.s, 0, 0, "")
    ELSE IF IsInstance(val, "int") THEN
        IF IntGt(val, INT32_MAX) THEN Literal("int", "", val.hi, val.lo, "L")
        ELSE Literal("int", "", val.hi, val.lo, "")
    ELSE IF IsInstance(val, "bool") THEN
        Literal("keyword", IF val.lo # 0 THEN "true" ELSE "false", 0, 0, "")
    ELSE IF IsInstance(val, "float") THEN Literal("float", val.s, 0, 0, "")
    ELSE Literal("quoted", ToStr(val).s, 0, 0, "")

format_value(val) ==
    IF val.t = "NoneType" THEN Literal("null", "null", 0, 0, "")
    ELSE IF IsInstance(val, "str") THEN Literal("quoted", val.s, 0, 0, "")
    ELSE IF IsInstance(val, "bool") THEN
        Literal("keyword", IF val.lo # 0 THEN "true" ELSE "false", 0, 0, "")
    ELSE IF IsInstance(val, "int") THEN
        IF IntGt(val, INT32_MAX) THEN Literal("int", "", val.hi, val.lo, "L")
        ELSE Literal("int", "", val.hi, val.lo, "")
    ELSE IF IsInstance(val, "float") THEN Literal("float", val.s, 0, 0, "")
    ELSE Literal("quoted", ToStr(val).s, 0, 0, "")


(***************************************************************************)
(* A table as pq.read_table returns it: the column names and types in      *)
(* schema order, the values of each column and the number of rows.  The    *)
(* record also holds what the code reads from pq.ParquetFile's metadata:   *)
(* the row counts of the file's row groups, in index order.                *)
(***************************************************************************)
Table(names, types, cols, nrows, row_groups) ==
    [names |-> names, types |-> types, cols |-> cols, nrows |-> nrows,
     row_groups |-> row_groups]

NoTable == Table(<<>>, <<>>, <<>>, 0, <<>>)

\* table.column(col_name): a name held by several columns (or none) is a KeyError
ColumnIndexes(t, col_name) == {k \in 1..Len(t.names) : t.names[k] = col_name}

ColumnRaises(t, col_name) == Cardinality(ColumnIndexes(t, col_name)) # 1

ColumnIndex(t, col_name) == CHOOSE k \in ColumnIndexes(t, col_name) : TRUE

\* table.column(col_name).to_pylist()
ColumnValues(t, col_name) == t.cols[ColumnIndex(t, col_name)]

(***************************************************************************)
(* generate_junit_template.  The template is the sequence of its lines     *)
(* that carry code (comment and blank lines are left out); each line has a *)
(* kind, and the number, text or literal the f-string puts into it.        *)
(***************************************************************************)
NoLiteral == Literal("", "", 0, 0, "")

Line(kind, n, text, lit) == [kind |-> kind, n |-> n, text |-> text, lit |-> lit]

Last(s) == s[Len(s)]

DotParquet == <<".","p","a","r","q","u","e","t">>

\* file_path.split('/')[-1]
FileName(path) == Last(Split(path, "/"))

\* ''.join(word.capitalize() for word in file_name.replace('.parquet', '').split('_'))
TestName(file_name) ==
    LET words == Split(Remove(file_name, DotParquet), "_")
    IN  Join([k \in 1..Len(words) |-> Capitalize(words[k])])

\* the template's head: lines 114-127
TemplateHead(path, t) ==
    << Line("@Test", 0, <<>>, NoLiteral),
       Line("method", 0, <<"t","e","s","t">> \o TestName(FileName(path)), NoLiteral),
       Line("filePath", 0, FileName(path), NoLiteral),
       Line("try", 0, <<>>, NoLiteral),
       Line("iterator", 0, <<>>, NoLiteral),
       Line("rowcount", t.nrows, <<>>, Literal("int", "", 0, t.nrows, "L")),
       Line("colcount", Len(t.names), <<>>, NoLiteral) >>

\* the column assertions: lines 130-134 (java_type is computed and not used)
ColumnAssertions(t) ==
    [k \in 1..Len(t.names) |-> Line("colname", k - 1, t.names[k], NoLiteral)]

\* the first-row assertions: lines 137-148
\* the first-row assertions without the test of len(table) > 0
FirstRowAssertionsAlways(t) ==
    << Line("hasNext", 0, <<>>, NoLiteral), Line("next", 0, <<>>, NoLiteral) >>
    \o [k \in 1..Len(t.names) |->
            Line("value", k - 1, <<>>,
                 IF t.nrows > 0 THEN format_value(ColumnValues(t, t.names[k])[1])
                 ELSE NoLiteral)]

FirstRowAssertions(t) ==
    IF t.nrows > 0
    THEN << Line("hasNext", 0, <<>>, NoLiteral), Line("next", 0, <<>>, NoLiteral) >>
         \o [k \in 1..Len(t.names) |->
                Line("value", k - 1, <<>>, format_value(ColumnValues(t, t.names[k])[1]))]
    ELSE <<>>

\* the result: the lines returned, or the exception raised
Returned(lines) == [raised |-> "", lines |-> lines]
Raised(e) == [raised |-> e, lines |-> <<>>]

generate_junit_template(path, t) ==
    IF \E k \in 1..Len(t.names) : ColumnRaises(t, t.names[k])
    THEN Raised("KeyError")
    ELSE Returned(TemplateHead(path, t) \o ColumnAssertions(t) \o FirstRowAssertions(t)
                  \o << Line("close", 0, <<>>, NoLiteral) >>)

(***************************************************************************)
(* The per-column summary of inspect_parquet (lines 60-87).                *)
(***************************************************************************)
T_int32 == <<"i","n","t","3","2">>
T_int64 == <<"i","n","t","6","4">>
T_float == <<"f","l","o","a","t">>
T_double == <<"d","o","u","b","l","e">>
T_string == <<"s","t","r","i","n","g">>
T_bool == <<"b","o","o","l">>
T_int16 == <<"i","n","t","1","6">>
T_uint64 == <<"u","i","n","t","6","4">>

\* the list of line 75
NumericTypes == {T_int32, T_int64, T_float, T_double}

FirstCount == 5
LastCount == 5
LastThreshold == 10

MinOf(a, b) == IF a < b THEN a ELSE b
MaxOf(a, b) == IF a > b THEN a ELSE b

\* [v for v in values if v is not None]
NonNull(values) == SelectSeq(values, LAMBDA v : v.t # "NoneType")

\* the number held by an int or float value (small values only)
ToInt(v) == v.hi * Limb + v.lo

\* min(values): the first of the least values, found by < from left to right
RECURSIVE MinFrom(_, _)
MinFrom(rest, m) ==
    IF rest = <<>> THEN m
    ELSE MinFrom(Tail(rest), IF IntGt(m, rest[1]) THEN rest[1] ELSE m)

PyMin(values) == MinFrom(Tail(values), values[1])

\* max(values)
RECURSIVE MaxFrom(_, _)
MaxFrom(rest, m) ==
    IF rest = <<>> THEN m
    ELSE MaxFrom(Tail(rest), IF IntGt(rest[1], m) THEN rest[1] ELSE m)

PyMax(values) == MaxFrom(Tail(values), values[1])

\* sum(values)
RECURSIVE PySum(_)
PySum(values) == IF values = <<>> THEN 0 ELSE ToInt(values[1]) + PySum(Tail(values))

\* f"{num / den:.2f}" in hundredths: the quotient rounded to two decimals, a
\* tie going to the even hundredth (the ties of a quotient of small integers
\* are binary fractions, which the float holds exactly)
Format2f(num, den) ==
    LET q == (100 * num) \div den
        r == (100 * num) % den
    IN  IF 2 * r < den THEN q
        ELSE IF 2 * r > den THEN q + 1
        ELSE IF q % 2 = 0 THEN q ELSE q + 1

\* values[:n]
FirstN(values, n) == SubSeq(values, 1, MinOf(n, Len(values)))

\* values[-n:] for n > 0
LastN(values, n) == SubSeq(values, MaxOf(1, Len(values) - n + 1), Len(values))

\* The lines printed for a column.  A line that is printed or not is a
\* sequence of one or no element.

\* lines 70-72
UniqueLine(values) ==
    IF Len(values) > 0
    THEN << Cardinality({ToStr(NonNull(values)[j]) : j \in 1..Len(NonNull(values))}) >>
    ELSE <<>>

\* lines 70, 75-77: the type-specific statistics are reached
HasStats(type, values) ==
    Len(values) > 0 /\ type \in NumericTypes /\ NonNull(values) # <<>>

\* line 78
MinLine(type, values) ==
    IF HasStats(type, values) THEN << PyMin(NonNull(values)) >> ELSE <<>>

\* line 79
MaxLine(type, values) ==
    IF HasStats(type, values) THEN << PyMax(NonNull(values)) >> ELSE <<>>

\* the Average line with len(values) as the divisor
AverageLineOverAllRows(type, values) ==
    IF HasStats(type, values) /\ Len(NonNull(values)) > 1
    THEN << Format2f(PySum(NonNull(values)), Len(values)) >>
    ELSE <<>>

\* lines 80-82, in hundredths
AverageLine(type, values) ==
    IF HasStats(type, values) /\ Len(NonNull(values)) > 1
    THEN << Format2f(PySum(NonNull(values)), Len(NonNull(values))) >>
    ELSE <<>>

\* lines 70, 85: the values listed by the "First n values" line
FirstValuesLine(values) ==
    IF Len(values) > 0 THEN << FirstN(values, FirstCount) >> ELSE <<>>

\* lines 70, 85: the n of the "First n values" line
FirstValuesCount(values) ==
    IF Len(values) > 0 THEN << MinOf(FirstCount, Len(values)) >> ELSE <<>>

\* the Last 5 values line with >= in place of >
LastValuesLineFromThreshold(values) ==
    IF Len(values) > 0 /\ Len(values) >= LastThreshold
    THEN << LastN(values, LastCount) >> ELSE <<>>

\* lines 70, 86-87
LastValuesLine(values) ==
    IF Len(values) > 0 /\ Len(values) > LastThreshold
    THEN << LastN(values, LastCount) >> ELSE <<>>

\* lines 61-87 for column k (1-based) of table t
ColumnSummary(t, k) ==
    [ name |-> t.names[k],
      type |-> t.types[k],
      length |-> Len(t.cols[k]),
      null_count |-> Len(t.cols[k]) - Len(NonNull(t.cols[k])),
      unique |-> UniqueLine(t.cols[k]),
      min |-> MinLine(t.types[k], t.cols[k]),
      max |-> MaxLine(t.types[k], t.cols[k]),
      avg |-> AverageLine(t.types[k], t.cols[k]),
      first_n |-> FirstValuesCount(t.cols[k]),
      first |-> FirstValuesLine(t.cols[k]),
      last |-> LastValuesLine(t.cols[k]) ]

(***************************************************************************)
(* The data preview of inspect_parquet (lines 90-99).  The frame is the    *)
(* sequence of its row labels 0 .. R-1.                                    *)
(***************************************************************************)
\* table.to_pandas()
ToPandas(t) == [k \in 1..t.nrows |-> k - 1]

\* df.head(n): the first n rows; for a negative n, all but the last -n
DfHead(df, n) ==
    IF n >= 0 THEN SubSeq(df, 1, MinOf(n, Len(df)))
    ELSE SubSeq(df, 1, MaxOf(0, Len(df) + n))

\* df.tail(n): the last n rows, none for n = 0; for a negative n, all but
\* the first -n
DfTail(df, n) ==
    IF n = 0 THEN <<>>
    ELSE IF n > 0 THEN SubSeq(df, MaxOf(1, Len(df) - n + 1), Len(df))
    ELSE SubSeq(df, MinOf(-n, Len(df)) + 1, Len(df))

Part(kind, n, rows) == [kind |-> kind, n |-> n, rows |-> rows]

\* the data preview with the half rounded up
PreviewPartsCeil(df, m) ==
    IF Len(df) <= m THEN << Part("frame", 0, df) >>
    ELSE << Part("showing", (m + 1) \div 2, <<>>),
            Part("frame", 0, DfHead(df, (m + 1) \div 2)),
            Part("ellipsis", 0, <<>>),
            Part("frame", 0, DfTail(df, (m + 1) \div 2)) >>

PreviewParts(df, m) ==
    IF Len(df) <= m THEN << Part("frame", 0, df) >>
    ELSE << Part("showing", m \div 2, <<>>),
            Part("frame", 0, DfHead(df, m \div 2)),
            Part("ellipsis", 0, <<>>),
            Part("frame", 0, DfTail(df, m \div 2)) >>

(***************************************************************************)
(* int(text), as __main__ applies it to sys.argv[2]: blanks around the     *)
(* number are dropped, a sign may lead, and the digits may be grouped by   *)
(* single underscores.  ok is FALSE where int raises ValueError.           *)
(***************************************************************************)
Digits == <<"0","1","2","3","4","5","6","7","8","9">>

IsDigit(c) == \E k \in 1..Len(Digits) : Digits[k] = c

DigitValue(c) == (CHOOSE k \in 1..Len(Digits) : Digits[k] = c) - 1

RECURSIVE LStrip(_)
LStrip(s) == IF s # <<>> /\ s[1] = " " THEN LStrip(Tail(s)) ELSE s

RECURSIVE RStrip(_)
RStrip(s) ==
    IF s # <<>> /\ s[Len(s)] = " " THEN RStrip(SubSeq(s, 1, Len(s) - 1)) ELSE s

Strip(s) == RStrip(LStrip(s))

WellFormedDigits(d) ==
    /\ d # <<>>
    /\ IsDigit(d[1]) /\ IsDigit(d[Len(d)])
    /\ \A k \in 1..Len(d) : IsDigit(d[k]) \/ d[k] = "_"
    /\ \A k \in 1..(Len(d) - 1) : ~(d[k] = "_" /\ d[k + 1] = "_")

RECURSIVE DigitsValue(_, _)
DigitsValue(d, acc) ==
    IF d = <<>> THEN acc
    ELSE IF d[1] = "_" THEN DigitsValue(Tail(d), acc)
    ELSE DigitsValue(Tail(d), 10 * acc + DigitValue(d[1]))

IntParse(text) ==
    LET body == Strip(text)
        signed == body # <<>> /\ body[1] \in {"+", "-"}
        d == IF signed THEN Tail(body) ELSE body
    IN  IF WellFormedDigits(d)
        THEN [ok |-> TRUE,
              val |-> IF signed /\ body[1] = "-" THEN 0 - DigitsValue(d, 0)
                      ELSE DigitsValue(d, 0)]
        ELSE [ok |-> FALSE, val |-> 0]

DefaultMaxRows == 20

(***************************************************************************)
(* The run of the script.  out and err are sequences of events; an event   *)
(* names what was printed and, where it is one of a series, its index.     *)
(***************************************************************************)
Ev(sec, idx) == [sec |-> sec, idx |-> idx]

\* isinstance(e, OSError): the handler as it would be with OSError caught
IsOSError(e) == e \in {"FileNotFoundError", "OSError"}

\* isinstance(e, FileNotFoundError), for the exceptions of the model
IsFileNotFoundError(e) == e = "FileNotFoundError"

MainUnchanged ==
    UNCHANGED <<argv, world, arg, ret>>

\* lines 195-197
Usage ==
    /\ pc = "main"
    /\ Len(argv) < 2
    /\ out' = Append(out, Ev("usage", 0))
    /\ status' = 1
    /\ pc' = "exit"
    /\ UNCHANGED <<file_path, max_rows, table, i, err, summary, preview, template, exc>>
    /\ MainUnchanged

\* lines 199-200; a ValueError of int() is outside the try statement: the
\* interpreter prints its trace on standard error and exits with status 1
ParseArgs ==
    /\ pc = "main"
    /\ Len(argv) >= 2
    /\ file_path' = argv[2]
    /\ IF Len(argv) > 2
       THEN LET parsed == IntParse(argv[3])
            IN  IF parsed.ok
                THEN /\ max_rows' = parsed.val
                     /\ pc' = "inspect"
                     /\ UNCHANGED <<err, exc, status>>
                ELSE /\ exc' = "ValueError"
                     /\ err' = Append(err, Ev("uncaught_traceback", 0))
                     /\ status' = 1
                     /\ pc' = "exit"
                     /\ UNCHANGED max_rows
       ELSE /\ max_rows' = DefaultMaxRows
            /\ pc' = "inspect"
            /\ UNCHANGED <<err, exc, status>>
    /\ UNCHANGED <<table, i, out, summary, preview, template>>
    /\ MainUnchanged

Raise(e) ==
    /\ exc' = e
    /\ pc' = "except"

\* lines 24-26
PrintBanner ==
    /\ pc = "inspect"
    /\ out' = Append(out, Ev("banner", 0))
    /\ pc' = "open"
    /\ UNCHANGED <<file_path, max_rows, table, i, err, summary, preview, template,
                   exc, status>>
    /\ MainUnchanged

\* line 29
OpenFile ==
    /\ pc = "open"
    /\ IF ~world.exists THEN Raise("FileNotFoundError")
       ELSE IF world.fault = "open_invalid" THEN Raise("ArrowInvalid")
       ELSE pc' = "read" /\ UNCHANGED exc
    /\ UNCHANGED <<file_path, max_rows, table, i, out, err, summary, preview,
                   template, status>>
    /\ MainUnchanged

\* line 30
ReadTable ==
    /\ pc = "read"
    /\ IF world.fault = "vanished" THEN Raise("FileNotFoundError") /\ UNCHANGED table
       ELSE IF world.fault = "read_invalid" THEN Raise("OSError") /\ UNCHANGED table
       ELSE table' = world.content /\ pc' = "schema" /\ UNCHANGED exc
    /\ UNCHANGED <<file_path, max_rows, i, out, err, summary, preview, template, status>>
    /\ MainUnchanged

\* lines 33-34
PrintSchema ==
    /\ pc = "schema"
    /\ out' = Append(out, Ev("schema", 0))
    /\ pc' = "metadata"
    /\ UNCHANGED <<file_path, max_rows, table, i, err, summary, preview, template,
                   exc, status>>
    /\ MainUnchanged

\* lines 37-50
PrintMetadata ==
    /\ pc = "metadata"
    /\ out' = out \o << Ev("num_row_groups", Len(table.row_groups)),
                        Ev("num_rows", table.nrows),
                        Ev("num_columns", Len(table.names)),
                        Ev("file_metadata", 0),
                        Ev("row_groups_header", 0) >>
    /\ i' = 0
    /\ pc' = "row_groups"
    /\ UNCHANGED <<file_path, max_rows, table, err, summary, preview, template,
                   exc, status>>
    /\ MainUnchanged

\* the row group loop running from the last index down
PrintRowGroupDescending ==
    /\ pc = "row_groups"
    /\ i < Len(table.row_groups)
    /\ out' = Append(out, Ev("row_group", Len(table.row_groups) - 1 - i))
    /\ i' = i + 1
    /\ UNCHANGED <<pc, file_path, max_rows, table, err, summary, preview, template,
                   exc, status>>
    /\ MainUnchanged

\* lines 51-56, one pass of the loop
PrintRowGroup ==
    /\ pc = "row_groups"
    /\ i < Len(table.row_groups)
    /\ out' = Append(out, Ev("row_group", i))
    /\ i' = i + 1
    /\ UNCHANGED <<pc, file_path, max_rows, table, err, summary, preview, template,
                   exc, status>>
    /\ MainUnchanged

\* line 59, once the row group loop is over
PrintColumnHeader ==
    /\ pc = "row_groups"
    /\ i >= Len(table.row_groups)
    /\ out' = Append(out, Ev("columns_header", 0))
    /\ i' = 0
    /\ pc' = "columns"
    /\ UNCHANGED <<file_path, max_rows, table, err, summary, preview, template,
                   exc, status>>
    /\ MainUnchanged

\* lines 60-87, one pass of the loop
PrintColumn ==
    /\ pc = "columns"
    /\ i < Len(table.names)
    /\ IF ColumnRaises(table, table.names[i + 1])
       THEN /\ Raise("KeyError")
            /\ UNCHANGED <<i, out, summary>>
       ELSE /\ out' = Append(out, Ev("column", i))
            /\ summary' = Append(summary, ColumnSummary(table, ColumnIndex(table, table.names[i + 1])))
            /\ i' = i + 1
            /\ UNCHANGED <<pc, exc>>
    /\ UNCHANGED <<file_path, max_rows, table, err, preview, template, status>>
    /\ MainUnchanged

\* lines 90-99, once the column loop is over
PrintPreview ==
    /\ pc = "columns"
    /\ i >= Len(table.names)
    /\ IF world.fault = "no_pandas"
       THEN /\ out' = Append(out, Ev("preview_header", 0))
            /\ Raise("ModuleNotFoundError")
            /\ UNCHANGED preview
       ELSE /\ out' = out \o << Ev("preview_header", 0), Ev("preview", 0) >>
            /\ preview' = PreviewParts(ToPandas(table), max_rows)
            /\ pc' = "template"
            /\ UNCHANGED exc
    /\ UNCHANGED <<file_path, max_rows, table, i, err, summary, template, status>>
    /\ MainUnchanged

\* lines 102-103
PrintTemplate ==
    /\ pc = "template"
    /\ LET r == generate_junit_template(file_path, table)
       IN  IF r.raised # ""
           THEN /\ out' = Append(out, Ev("template_header", 0))
                /\ Raise(r.raised)
                /\ UNCHANGED template
           ELSE /\ out' = out \o << Ev("template_header", 0), Ev("template", 0) >>
                /\ template' = r.lines
                /\ pc' = "closing"
                /\ UNCHANGED exc
    /\ UNCHANGED <<file_path, max_rows, table, i, err, summary, preview, status>>
    /\ MainUnchanged

\* line 105
PrintClosing ==
    /\ pc = "closing"
    /\ out' = Append(out, Ev("closing", 0))
    /\ pc' = "returned"
    /\ UNCHANGED <<file_path, max_rows, table, i, err, summary, preview, template,
                   exc, status>>
    /\ MainUnchanged

\* inspect_parquet returned: the script ends, exit status 0
ExitOk ==
    /\ pc = "returned"
    /\ status' = 0
    /\ pc' = "exit"
    /\ UNCHANGED <<file_path, max_rows, table, i, out, err, summary, preview,
                   template, exc>>
    /\ MainUnchanged

\* lines 204-206
HandleNotFound ==
    /\ pc = "except"
    /\ IsFileNotFoundError(exc)
    /\ out' = Append(out, Ev("not_found_line", 0))
    /\ status' = 1
    /\ pc' = "exit"
    /\ UNCHANGED <<file_path, max_rows, table, i, err, summary, preview, template, exc>>
    /\ MainUnchanged

\* lines 207-211
HandleException ==
    /\ pc = "except"
    /\ ~IsFileNotFoundError(exc)
    /\ out' = Append(out, Ev("error_line", 0))
    /\ err' = Append(err, Ev("traceback", 0))
    /\ status' = 1
    /\ pc' = "exit"
    /\ UNCHANGED <<file_path, max_rows, table, i, summary, preview, template, exc>>
    /\ MainUnchanged

Next ==
    \/ Usage
    \/ ParseArgs
    \/ PrintBanner
    \/ OpenFile
    \/ ReadTable
    \/ PrintSchema
    \/ PrintMetadata
    \/ PrintRowGroup
    \/ PrintColumnHeader
    \/ PrintColumn
    \/ PrintPreview
    \/ PrintTemplate
    \/ PrintClosing
    \/ ExitOk
    \/ HandleNotFound
    \/ HandleException

(***************************************************************************)
(* The runs checked: argument lists, and what the run finds on disk.       *)
(***************************************************************************)
\* the decimal digits of n >= 0
RECURSIVE DecimalText(_)
DecimalText(n) ==
    IF n < 10 THEN << Digits[n + 1] >>
    ELSE DecimalText(n \div 10) \o << Digits[(n % 10) + 1] >>

Prog == <<"p","y">>
N_id == <<"i","d">>
N_name == <<"n","a","m","e">>
F_sample == <<"s","a","m","p","l","e">>
F_data == <<"d","a","t","a">>
F_Data == <<"D","a","t","a">>
F_pq == <<".","p","q">>

SamplePath == <<"d","/">> \o F_sample \o <<"_">> \o F_data \o DotParquet

World(exists, fault, content) ==
    [exists |-> exists, fault |-> fault, content |-> content]

Env(args, w) == [argv |-> args, world |-> w]

\* one row group holding all the rows, none for an empty table
OneGroup(nrows) == IF nrows = 0 THEN <<>> ELSE << nrows >>

\* a table of one column
OneColumn(name, type, values) ==
    Table(<< name >>, << type >>, << values >>, Len(values), OneGroup(Len(values)))

SampleTable ==
    Table(<< N_id, N_name >>, << T_int64, T_string >>,
          << << PyInt(1), PyInt(2), PyInt(3) >>,
             << PyStr("Alice"), PyStr("Bob"), PyNone >> >>, 3, << 2, 1 >>)

EmptyTable ==
    Table(<< N_id, N_name >>, << T_int64, T_string >>, << <<>>, <<>> >>, 0, <<>>)

DuplicateNameTable ==
    Table(<< N_id, N_id >>, << T_int64, T_string >>,
          << << PyInt(1) >>, << PyStr("Alice") >> >>, 1, << 1 >>)

NoColumnTable == Table(<<>>, <<>>, <<>>, 0, <<>>)

BaseTables == {SampleTable, EmptyTable, DuplicateNameTable, NoColumnTable}

Faults == {"none", "open_invalid", "vanished", "read_invalid", "no_pandas"}

BaseArgvs ==
    { << Prog >>,
      << Prog, SamplePath >>,
      << Prog, SamplePath, <<"5">> >>,
      << Prog, SamplePath, <<"2">> >>,
      << Prog, SamplePath, <<" ","1","_","0"," ">> >>,
      << Prog, SamplePath, <<"-","4">> >>,
      << Prog, SamplePath, <<"a","b","c">> >>,
      << Prog, SamplePath, <<"2",".","5">> >>,
      << Prog, SamplePath, <<>> >>,
      << Prog, SamplePath, <<"3">>, <<"x">> >> }

BaseEnvs ==
    {Env(a, World(FALSE, "none", NoTable)) : a \in BaseArgvs}
    \cup {Env(a, World(TRUE, f, t)) : a \in BaseArgvs, f \in Faults, t \in BaseTables}

\* tables of R rows and preview sizes M, for the data preview
RowsTable(nrows) == OneColumn(N_id, T_int64, [k \in 1..nrows |-> PyInt(k)])

PreviewEnvs ==
    {Env(<< Prog, SamplePath, DecimalText(m) >>, World(TRUE, "none", RowsTable(r))) :
        m \in 1..MaxPreview, r \in 0..MaxRows}

\* columns, for the per-column summary
IntValues == {PyNone, PyInt(-2), PyInt(0), PyInt(1), PyInt(3)}
FloatValues == {PyNone, PyFloat(-2, "-2.0"), PyFloat(0, "0.0"), PyFloat(1, "1.0"),
                PyFloat(3, "3.0")}
StrValues == {PyNone, PyStr("a"), PyStr("b")}
BoolValues == {PyNone, PyBool(TRUE), PyBool(FALSE)}

LongIntLists ==
    {[k \in 1..n |-> PyInt(k)] : n \in (MaxShortLen + 1)..MaxLongLen}
    \cup {[k \in 1..n |-> IF k % 3 = 0 THEN PyNone ELSE PyInt(n - k)] :
            n \in (MaxShortLen + 1)..MaxLongLen}

TypedColumns ==
    {<< type, values >> : type \in {T_int32, T_int64, T_int16, T_uint64},
                          values \in SeqsUpTo(IntValues, MaxShortLen) \cup LongIntLists}
    \cup {<< type, values >> : type \in {T_float, T_double},
                               values \in SeqsUpTo(FloatValues, MaxShortLen)}
    \cup {<< T_string, values >> : values \in SeqsUpTo(StrValues, MaxShortLen)}
    \cup {<< T_bool, values >> : values \in SeqsUpTo(BoolValues, MaxShortLen)}

ColumnEnvs ==
    {Env(<< Prog, SamplePath >>, World(TRUE, "none", OneColumn(N_id, c[1], c[2]))) :
        c \in TypedColumns}

Envs == BaseEnvs \cup PreviewEnvs \cup ColumnEnvs

Init ==
    /\ \E e \in Envs : argv = e.argv /\ world = e.world
    /\ pc = "main"
    /\ file_path = <<>>
    /\ max_rows = 0
    /\ table = NoTable
    /\ i = 0
    /\ out = <<>>
    /\ err = <<>>
    /\ summary = <<>>
    /\ preview = <<>>
    /\ template = <<>>
    /\ exc = ""
    /\ status = -1
    /\ arg = <<>>
    /\ ret = <<>>

Spec == Init /\ [][Next]_vars

(***************************************************************************)
(* The pure functions, each applied to inputs drawn from a bounded set.    *)
(***************************************************************************)
NoRun ==
    /\ argv = <<>>
    /\ world = World(FALSE, "none", NoTable)
    /\ file_path = <<>>
    /\ max_rows = 0
    /\ table = NoTable
    /\ i = 0
    /\ out = <<>>
    /\ err = <<>>
    /\ summary = <<>>
    /\ preview = <<>>
    /\ template = <<>>
    /\ exc = ""
    /\ status = -1

RunUnchanged ==
    UNCHANGED <<argv, world, file_path, max_rows, table, i, out, err, summary,
                preview, template, exc, status>>

\* type names: up to MaxTypeParts fragments, among them the keys of type_map
TypeFragments ==
    {type_map[k].key : k \in 1..Len(type_map)}
    \cup { <<"I","N","T","3","2">>, <<"D","o","u","b","l","e">>, <<"i","n">>,
           <<"t","6","4">>, <<"u">>, <<"l","i","s","t","<">>, <<"[","n","s","]">> }

TypeNames == {Concat(parts) : parts \in SeqsUpTo(TypeFragments, MaxTypeParts)}

InitTypes ==
    /\ pc = "call"
    /\ arg \in TypeNames
    /\ ret = <<>>
    /\ NoRun

CallPythonToJavaType ==
    /\ pc = "call"
    /\ ret' = python_to_java_type(arg)
    /\ pc' = "return"
    /\ UNCHANGED arg
    /\ RunUnchanged

SpecTypes == InitTypes /\ [][CallPythonToJavaType]_vars

\* values of every type, the integers on both sides of the int32 bounds
FormatInputs ==
    {PyBigInt(hi, lo) : hi \in {-40000, -32770, -32769, -32768, -32767, -1, 0, 1,
                                32766, 32767, 32768, 40000},
                        lo \in {0, 1, 2, Limb - 2, Limb - 1}}
    \cup {PyNone, PyBool(TRUE), PyBool(FALSE)}
    \cup {PyStr(""), PyStr("Alice"), PyStr("true"), PyStr("1")}
    \cup FloatValues
    \cup {PyOther("bytes", "b'ab'"), PyOther("datetime", "2020-01-01 00:00:00"),
          PyOther("list", "[1, 2]"), PyOther("Decimal", "1.50")}

InitFormat ==
    /\ pc = "call"
    /\ arg \in FormatInputs
    /\ ret = <<>>
    /\ NoRun

CallFormatValue ==
    /\ pc = "call"
    /\ ret' = format_value(arg)
    /\ pc' = "return"
    /\ UNCHANGED arg
    /\ RunUnchanged

SpecFormat == InitFormat /\ [][CallFormatValue]_vars

\* paths: up to MaxPathParts fragments
PathFragments == {F_sample, F_data, F_Data, <<"_">>, <<"/">>, DotParquet, F_pq}

Paths == {Concat(parts) : parts \in SeqsUpTo(PathFragments, MaxPathParts)}

\* tables of up to MaxTemplateCols columns and MaxTemplateRows rows
TemplateColumns(nrows) ==
    {<< name, T_int64, values >> :
        name \in {N_id, N_name},
        values \in [1..nrows -> {PyInt(1), PyBigInt(32768, 0)}]}
    \cup {<< name, T_string, values >> :
            name \in {N_id, N_name},
            values \in [1..nrows -> {PyStr("Alice"), PyNone}]}

TemplateTables ==
    UNION {{Table([k \in 1..Len(cs) |-> cs[k][1]], [k \in 1..Len(cs) |-> cs[k][2]],
                  [k \in 1..Len(cs) |-> cs[k][3]], nrows, OneGroup(nrows)) :
             cs \in SeqsUpTo(TemplateColumns(nrows), MaxTemplateCols)} :
           nrows \in 0..MaxTemplateRows}

TemplateInputs ==
    {[path |-> p, table |-> SampleTable] : p \in Paths}
    \cup {[path |-> SamplePath, table |-> t] : t \in TemplateTables}

InitTemplate ==
    /\ pc = "call"
    /\ arg \in TemplateInputs
    /\ ret = <<>>
    /\ NoRun

CallGenerateJunitTemplate ==
    /\ pc = "call"
    /\ ret' = generate_junit_template(arg.path, arg.table)
    /\ pc' = "return"
    /\ UNCHANGED arg
    /\ RunUnchanged

SpecTemplate == InitTemplate /\ [][CallGenerateJunitTemplate]_vars

(***************************************************************************)
(* The properties checked.                                                 *)
(***************************************************************************)
Range(s) == {s[k] : k \in 1..Len(s)}

IsPrefix(a, b) == Len(a) <= Len(b) /\ SubSeq(b, 1, Len(a)) = a

Least(S) == CHOOSE k \in S : \A j \in S : k <= j

Greatest(S) == CHOOSE k \in S : \A j \in S : k >= j

\* The table of the lookup, as the claim gives it.
ClaimTypeTable ==
    << << <<"i","n","t","3","2">>, "Integer" >>,
       << <<"i","n","t","6","4">>, "Long" >>,
       << <<"f","l","o","a","t">>, "Float" >>,
       << <<"d","o","u","b","l","e">>, "Double" >>,
       << <<"s","t","r","i","n","g">>, "String" >>,
       << <<"b","i","n","a","r","y">>, "String" >>,
       << <<"b","o","o","l">>, "Boolean" >> >>

ClaimHits(name) ==
    {k \in 1..Len(ClaimTypeTable) : Contains(Lower(name), ClaimTypeTable[k][1])}

\* C5: python_to_java_type returns the target of the earliest key of the ordered
\* table int32, int64, float, double, string, binary, bool that occurs in the
\* lower-cased type name, wherever the keys occur in the name, and returns
\* Object exactly when no key occurs.
C5_FirstMatchLookup ==
    pc = "return" =>
        /\ (ret = "Object") <=> (ClaimHits(arg) = {})
        /\ ClaimHits(arg) # {} => ret = ClaimTypeTable[Least(ClaimHits(arg))][2]

\* a name in which double comes before int32, mapped by the earlier key int32
C5_Witness ==
    /\ pc = "return"
    /\ arg = <<"d","o","u","b","l","e">> \o <<"i","n","t","3","2">>
    /\ ret = "Integer"

LiteralForms == {"null", "quoted", "keyword", "int", "float"}

\* C10: format_value gives every value exactly one literal form, by priority:
\* None gives null, text gives the text quoted, a boolean gives the keyword true
\* or false and never an integer literal, an integer gives an integer literal, a
\* float its default notation, any other value its string form quoted; every
\* input gets a literal.
C10_LiteralForms ==
    pc = "return" =>
        /\ ret.form \in LiteralForms
        /\ arg.t = "NoneType" => ret.form = "null" /\ ret.text = "null"
        /\ arg.t = "str" => ret.form = "quoted" /\ ret.text = arg.s
        /\ arg.t = "bool" =>
              /\ ret.form = "keyword"
              /\ ret.text = (IF arg.lo = 1 THEN "true" ELSE "false")
        /\ arg.t = "int" => ret.form = "int" /\ ret.hi = arg.hi /\ ret.lo = arg.lo
        /\ arg.t = "float" => ret.form = "float" /\ ret.text = arg.s
        /\ arg.t \notin {"NoneType", "str", "bool", "int", "float"} =>
              ret.form = "quoted" /\ ret.text = arg.s

\* the boolean True was given the keyword true
C10_Witness ==
    pc = "return" /\ arg = PyBool(TRUE) /\ ret.form = "keyword" /\ ret.text = "true"

\* v lies outside [-2147483648, 2147483647] = [-32768 * 2^16, 32767 * 2^16 + 65535]
OutsideInt32(v) == v.hi > 32767 \/ v.hi < -32768

\* C4: format_value gives the suffix L to every integer outside the 32-bit
\* signed range [-2147483648, 2147483647], below it as well as above it, and no
\* suffix to every integer inside it.
C4_SuffixOutsideInt32 ==
    (pc = "return" /\ arg.t = "int") =>
        /\ ret.form = "int"
        /\ OutsideInt32(arg) => ret.suffix = "L"
        /\ ~OutsideInt32(arg) => ret.suffix = ""

AssertionKinds == {"rowcount", "colcount", "colname", "hasNext", "next", "value"}

Assertions(lines) == SelectSeq(lines, LAMBDA l : l.kind \in AssertionKinds)

\* C3: the template returned for a table of C columns and R rows holds, in this
\* order: the row count assertion with R as a long literal, the column count
\* assertion with C, C column name assertions (the i-th with index i and the
\* name of column i), and then, when R > 0, hasNext, next and C first-row
\* assertions (the i-th with index i and the formatted value of column i in
\* row 0); when R = 0 nothing follows the column name assertions.
C3_TemplateAssertions ==
    (pc = "return" /\ ret.raised = "") =>
        LET t == arg.table
            C == Len(t.names)
            R == t.nrows
            A == Assertions(ret.lines)
        IN  /\ Len(A) = (IF R > 0 THEN 2 + C + 2 + C ELSE 2 + C)
            /\ A[1].kind = "rowcount" /\ A[1].n = R
            /\ A[1].lit.form = "int" /\ A[1].lit.lo = R /\ A[1].lit.suffix = "L"
            /\ A[2].kind = "colcount" /\ A[2].n = C
            /\ \A k \in 1..C :
                  A[2 + k].kind = "colname" /\ A[2 + k].n = k - 1
                  /\ A[2 + k].text = t.names[k]
            /\ R > 0 =>
                  /\ A[2 + C + 1].kind = "hasNext"
                  /\ A[2 + C + 2].kind = "next"
                  /\ \A k \in 1..C :
                        /\ A[2 + C + 2 + k].kind = "value"
                        /\ A[2 + C + 2 + k].n = k - 1
                        /\ A[2 + C + 2 + k].lit = format_value(t.cols[k][1])

\* a template was returned for a table of two columns and at least one row
C3_Witness ==
    /\ pc = "return"
    /\ ret.raised = ""
    /\ Len(arg.table.names) = 2
    /\ arg.table.nrows > 0
    /\ \E k \in 1..Len(ret.lines) : ret.lines[k].kind = "value" /\ ret.lines[k].n = 1

\* the part of the path after its last '/'
ClaimBaseName(path) ==
    LET slashes == {k \in 1..Len(path) : path[k] = "/"}
    IN  IF slashes = {} THEN path ELSE SubSeq(path, Greatest(slashes) + 1, Len(path))

\* the name without its extension: what follows the last dot, leading dots aside
ClaimStripExtension(name) ==
    LET dots == {k \in 1..Len(name) :
                    name[k] = "." /\ \E j \in 1..(k - 1) : name[j] # "."}
    IN  IF dots = {} THEN name ELSE SubSeq(name, 1, Greatest(dots) - 1)

ClaimMethodName(path) ==
    LET words == Split(ClaimStripExtension(ClaimBaseName(path)), "_")
    IN  <<"t","e","s","t">> \o Join([k \in 1..Len(words) |-> Capitalize(words[k])])

\* C6: the method name of the template is test followed by the capitalized
\* underscore-separated words of the path's base name with its extension
\* stripped, and the filePath line holds the unmodified base name.
C6_MethodName ==
    (pc = "return" /\ ret.raised = "") =>
        /\ ret.lines[2].kind = "method"
        /\ ret.lines[2].text = ClaimMethodName(arg.path)
        /\ ret.lines[3].kind = "filePath"
        /\ ret.lines[3].text = ClaimBaseName(arg.path)

\* The sections of a complete report on table t, in order.
FullReport(t) ==
    << Ev("banner", 0), Ev("schema", 0),
       Ev("num_row_groups", Len(t.row_groups)), Ev("num_rows", t.nrows),
       Ev("num_columns", Len(t.names)), Ev("file_metadata", 0),
       Ev("row_groups_header", 0) >>
    \o [k \in 1..Len(t.row_groups) |-> Ev("row_group", k - 1)]
    \o << Ev("columns_header", 0) >>
    \o [k \in 1..Len(t.names) |-> Ev("column", k - 1)]
    \o << Ev("preview_header", 0), Ev("preview", 0),
          Ev("template_header", 0), Ev("template", 0), Ev("closing", 0) >>

OutcomeUsage ==
    out = << Ev("usage", 0) >> /\ err = <<>> /\ status = 1

OutcomeNotFound ==
    /\ out # <<>> /\ Last(out) = Ev("not_found_line", 0)
    /\ Ev("error_line", 0) \notin Range(out)
    /\ err = <<>>
    /\ status = 1

OutcomeError ==
    /\ out # <<>> /\ Last(out) = Ev("error_line", 0)
    /\ Ev("not_found_line", 0) \notin Range(out)
    /\ err = << Ev("traceback", 0) >>
    /\ status = 1

OutcomeSuccess ==
    out = FullReport(world.content) /\ err = <<>> /\ status = 0

\* the trace of an exception no handler caught, and nothing else
OutcomeUncaught ==
    out = <<>> /\ err = << Ev("uncaught_traceback", 0) >> /\ status = 1

Count(bools) == Cardinality({k \in 1..Len(bools) : bools[k]})

\* the optional max_rows argument is given and is no integer
BadMaxRows == Len(argv) > 2 /\ ~IntParse(argv[3]).ok

\* the exit status is set when the process ends, and 0 only after the whole
\* report with its closing banner
StatusAtExit ==
    /\ pc # "exit" => status = -1
    /\ pc = "exit" => status \in {0, 1}
    /\ status = 0 => out # <<>> /\ Last(out) = Ev("closing", 0)
                     /\ out = FullReport(world.content)

\* C1, as claimed: every invocation ends in exactly one of (a) no file argument:
\* usage, no inspection, status 1; (b) FileNotFoundError during inspect_parquet:
\* the not-found line, no trace, status 1; (c) any other failure: the error
\* line and a trace, status 1; (d) otherwise the full report and status 0; for
\* every argument list, a non-integer max_rows included.
C1_FourOutcomes ==
    /\ StatusAtExit
    /\ pc = "exit" =>
          /\ Len(argv) < 2 => OutcomeUsage
          /\ (Len(argv) >= 2 /\ exc = "FileNotFoundError") => OutcomeNotFound
          /\ (Len(argv) >= 2 /\ exc \notin {"", "FileNotFoundError"}) => OutcomeError
          /\ (Len(argv) >= 2 /\ exc = "") => OutcomeSuccess
          /\ Count(<< OutcomeUsage, OutcomeNotFound, OutcomeError, OutcomeSuccess >>) = 1

\* C1, amended: outcomes (a) to (d) are those of the argument lists whose
\* max_rows, when given, is an integer; a file argument followed by a
\* non-integer max_rows ends in a fifth outcome: no inspection is started,
\* nothing is printed on standard output, the interpreter prints the trace of
\* the uncaught ValueError, exit status 1.  Every invocation ends in exactly
\* one of the five.
C1_FiveOutcomes ==
    /\ StatusAtExit
    /\ pc = "exit" =>
          /\ Len(argv) < 2 => OutcomeUsage
          /\ BadMaxRows => OutcomeUncaught
          /\ (Len(argv) >= 2 /\ ~BadMaxRows /\ exc = "FileNotFoundError")
                => OutcomeNotFound
          /\ (Len(argv) >= 2 /\ ~BadMaxRows /\ exc \notin {"", "FileNotFoundError"})
                => OutcomeError
          /\ (Len(argv) >= 2 /\ ~BadMaxRows /\ exc = "") => OutcomeSuccess
          /\ Count(<< OutcomeUsage, OutcomeNotFound, OutcomeError, OutcomeSuccess,
                      OutcomeUncaught >>) = 1

\* a run given a non-integer max_rows has ended
C1_Witness ==
    pc = "exit" /\ BadMaxRows /\ status = 1 /\ out = <<>>

\* floor(m / 2)
ClaimHalf(m) == CHOOSE h \in 0..m : 2 * h <= m /\ m < 2 * h + 2

\* C2: once the preview is printed for R rows and a positive max_rows M: if
\* R <= M the whole table is shown and no ellipsis; if R > M, floor(M/2)
\* leading rows, then the ellipsis, then floor(M/2) trailing rows, in that
\* order, and no row is in both parts.
C2_PreviewSelection ==
    (Ev("preview", 0) \in Range(out) /\ max_rows > 0) =>
        LET R == table.nrows
            M == max_rows
            h == ClaimHalf(M)
            shown == SelectSeq(preview, LAMBDA q : q.kind # "showing")
        IN  IF R <= M
            THEN /\ preview = << Part("frame", 0, [k \in 1..R |-> k - 1]) >>
            ELSE /\ Len(shown) = 3
                 /\ shown[1].kind = "frame"
                 /\ shown[1].rows = [k \in 1..h |-> k - 1]
                 /\ shown[2].kind = "ellipsis"
                 /\ shown[3].kind = "frame"
                 /\ shown[3].rows = [k \in 1..h |-> R - h + k - 1]
                 /\ Range(shown[1].rows) \cap Range(shown[3].rows) = {}

\* a preview of more rows than an odd max_rows greater than 1
C2_Witness ==
    /\ Ev("preview", 0) \in Range(out)
    /\ max_rows > 1 /\ max_rows % 2 = 1
    /\ table.nrows > max_rows
    /\ Len(preview) = 4

\* C7, as claimed: every column summary shows a first-values line with the
\* first min(5, n) values, and a last-values line exactly when n > 10, holding
\* the final 5 values in order.
C7_SampleLinesAlways ==
    \A j \in 1..Len(summary) :
        LET values == table.cols[j]
            n == Len(values)
        IN  /\ summary[j].first_n = << MinOf(5, n) >>
            /\ summary[j].first = << [k \in 1..MinOf(5, n) |-> values[k]] >>
            /\ (summary[j].last # <<>>) <=> (n > 10)
            /\ n > 10 => summary[j].last = << [k \in 1..5 |-> values[n - 5 + k]] >>

\* C7, amended: a column summary of n >= 1 values shows a first-values line
\* with the first min(5, n) values, and a last-values line exactly when n > 10,
\* holding the final 5 values in order; the summary of a column of no values
\* shows neither line.
C7_SampleLinesNonEmpty ==
    \A j \in 1..Len(summary) :
        LET values == table.cols[j]
            n == Len(values)
        IN  /\ n >= 1 =>
                /\ summary[j].first_n = << MinOf(5, n) >>
                /\ summary[j].first = << [k \in 1..MinOf(5, n) |-> values[k]] >>
            /\ n = 0 => summary[j].first_n = <<>> /\ summary[j].first = <<>>
            /\ (summary[j].last # <<>>) <=> (n > 10)
            /\ n > 10 => summary[j].last = << [k \in 1..5 |-> values[n - 5 + k]] >>

\* the summary of a column of more than 10 values, with its last-values line
C7_Witness ==
    \E j \in 1..Len(summary) :
        Len(table.cols[j]) > 10 /\ summary[j].last # <<>> /\ summary[j].first # <<>>

ClaimNumericTypes ==
    { <<"i","n","t","3","2">>, <<"i","n","t","6","4">>, <<"f","l","o","a","t">>,
      <<"d","o","u","b","l","e">> }

Abs(x) == IF x < 0 THEN 0 - x ELSE x

\* C8: Min and Max are printed exactly for the columns of type int32, int64,
\* float or double that hold a non-null value, and are the least and greatest
\* non-null values; Average is printed exactly when such a column holds more
\* than one non-null value and is the mean of the non-null values, to two
\* decimals (within half a hundredth of sum / count, nulls in neither).
C8_NumericStatistics ==
    \A j \in 1..Len(summary) :
        LET nn == NonNull(table.cols[j])
            numeric == table.types[j] \in ClaimNumericTypes
            total == PySum(nn)
        IN  /\ (summary[j].min # <<>>) <=> (numeric /\ Len(nn) >= 1)
            /\ (summary[j].max # <<>>) <=> (numeric /\ Len(nn) >= 1)
            /\ (summary[j].avg # <<>>) <=> (numeric /\ Len(nn) > 1)
            /\ summary[j].min # <<>> =>
                  /\ summary[j].min[1] \in Range(nn)
                  /\ \A v \in Range(nn) : ToInt(summary[j].min[1]) <= ToInt(v)
            /\ summary[j].max # <<>> =>
                  /\ summary[j].max[1] \in Range(nn)
                  /\ \A v \in Range(nn) : ToInt(summary[j].max[1]) >= ToInt(v)
            /\ summary[j].avg # <<>> =>
                  2 * Abs(summary[j].avg[1] * Len(nn) - 100 * total) <= Len(nn)

\* the summary of a numeric column with nulls and several non-null values
C8_Witness ==
    \E j \in 1..Len(summary) :
        /\ summary[j].null_count > 0
        /\ summary[j].avg # <<>>
        /\ summary[j].min # summary[j].max

HandlerLines == {Ev("not_found_line", 0), Ev("error_line", 0)}

Sections(o) == SelectSeq(o, LAMBDA e : e \notin HandlerLines)

\* the state part of C9: what is on standard output at any time
C9_Emitted ==
    Len(argv) >= 2 =>
        /\ IsPrefix(Sections(out), FullReport(world.content))
        /\ \A j \in 1..Len(summary) : summary[j].name = world.content.names[j]
        /\ exc # "" => Ev("closing", 0) \notin Range(out)
        /\ (exc = "FileNotFoundError" /\ pc \in {"except", "exit"}) =>
              out[1] = Ev("banner", 0)
        /\ (pc = "exit" /\ exc = "") => out = FullReport(world.content)

\* the step part of C9: how standard output changes
C9_Step ==
    /\ IsPrefix(out, out')
    /\ exc # "" => Sections(out') = Sections(out)

\* C9: the sections are emitted in the fixed order banner, schema, metadata
\* with the row groups in index order, column summaries in schema order, data
\* preview, test template, closing banner, none twice; what was emitted stays;
\* after a failure no later section is emitted and the closing banner is never
\* printed; the banner is there in the not-found outcome.
C9_EmissionOrder == [](C9_Emitted) /\ [][C9_Step]_vars

\* a run that failed in the data preview has ended: the sections before it
\* are on standard output, the closing banner is not
C9_Witness ==
    /\ pc = "exit"
    /\ exc = "ModuleNotFoundError"
    /\ Ev("preview_header", 0) \in Range(out)
    /\ Ev("column", 1) \in Range(out)
    /\ Ev("row_group", 1) \in Range(out)

=============================================================================
